---- MODULE Spec2Model ----
(***************************************************************************)
(* Model of bindgen/diagnostics.rs: the Diagnostic and Slice builders,     *)
(* Diagnostic::display with its thread-local sink-mode flag, and get_line. *)
(*                                                                         *)
(* Text is a sequence of atoms (short strings); "\n" is the line feed and  *)
(* "\r" the carriage return.  Option<T> is a sequence of length 0 (None)   *)
(* or 1 (Some).                                                            *)
(***************************************************************************)
EXTENDS Integers, Sequences, FiniteSets, TLC

VARIABLES title, slices, footer, cur, hist,
          env, INVOKED_BY_BUILD_SCRIPT, envReads, prev, last,
          fs_file, arg_line, ret

vars == <<title, slices, footer, cur, hist,
          env, INVOKED_BY_BUILD_SCRIPT, envReads, prev, last,
          fs_file, arg_line, ret>>

diagVars == <<title, slices, footer>>
dispVars == <<env, INVOKED_BY_BUILD_SCRIPT, envReads, prev, last>>
lineVars == <<fs_file, arg_line, ret>>

(***************************************************************************)
(* Bounds of the model.                                                    *)
(***************************************************************************)
MaxCalls == 4
MaxSlices == 3
MaxFooter == 2
MaxLines == 3

(* Width of usize in the model (a 16-bit target). *)
USIZE_BITS == 16
USIZE_MAX == 2^USIZE_BITS - 1

None == <<>>
Some(v) == <<v>>

(***************************************************************************)
(* Inputs.                                                                 *)
(***************************************************************************)
Threads == {"t1", "t2"}
Sources == {<<"y", "\n", "z">>}
Names == {<<"f.h">>}
LineNos == {2, 13}
Cols == {1}
TitleArgs == {[msg |-> <<"a">>, level |-> "Error"],
              [msg |-> <<"b", "\n", "c">>, level |-> "Warn"]}
FooterArgs == {[msg |-> <<"a">>, level |-> "Note"],
               [msg |-> <<"b", "\n", "c">>, level |-> "Help"]}

(***************************************************************************)
(* Level and its conversion to the engine's AnnotationType.                *)
(***************************************************************************)
Level == {"Error", "Warn", "Info", "Note", "Help"}

AnnotationTypeFrom(level) ==
    CASE level = "Error" -> "AnnotationType::Error"
      [] level = "Warn"  -> "AnnotationType::Warning"
      [] level = "Info"  -> "AnnotationType::Info"
      [] level = "Note"  -> "AnnotationType::Note"
      [] level = "Help"  -> "AnnotationType::Help"

(***************************************************************************)
(* Decimal formatting of an unsigned integer ("{}" of a usize).            *)
(***************************************************************************)
Digits == <<"0", "1", "2", "3", "4", "5", "6", "7", "8", "9">>

RECURSIVE DecStr(_)
DecStr(n) ==
    IF n < 10 THEN <<Digits[n + 1]>>
    ELSE DecStr(n \div 10) \o <<Digits[(n % 10) + 1]>>

(***************************************************************************)
(* Slice and its builder.                                                  *)
(***************************************************************************)
DefaultSlice == [source |-> None, filename |-> None, line |-> None]

with_source(s, source) == [s EXCEPT !.source = Some(source)]

with_location(s, name, line, col) ==
    [s EXCEPT !.filename = Some(name \o <<":">> \o DecStr(line) \o <<":">> \o DecStr(col)),
              !.line = Some(line)]

(***************************************************************************)
(* Diagnostic builder: each operation returns the new value of its field.  *)
(***************************************************************************)
with_title_keepFirst(t, msg, level) ==
    IF t = None THEN Some([msg |-> msg, level |-> level]) ELSE t

with_title(t, msg, level) == Some([msg |-> msg, level |-> level])

add_slice(ss, slice) == Append(ss, slice)

add_annotation(f, msg, level) == Append(f, [msg |-> msg, level |-> level])

WithSource ==
    /\ \E s \in Sources : cur' = with_source(cur, s)
    /\ UNCHANGED <<diagVars, hist, dispVars, lineVars>>

WithLocation ==
    /\ \E n \in Names, l \in LineNos, c \in Cols : cur' = with_location(cur, n, l, c)
    /\ UNCHANGED <<diagVars, hist, dispVars, lineVars>>

WithTitle ==
    /\ Len(hist) < MaxCalls
    /\ \E a \in TitleArgs :
          /\ title' = with_title(title, a.msg, a.level)
          /\ hist' = Append(hist, [op |-> "with_title", arg |-> Some(a), slice |-> None])
    /\ UNCHANGED <<slices, footer, cur, dispVars, lineVars>>

AddSlice ==
    /\ Len(hist) < MaxCalls
    /\ slices' = add_slice(slices, cur)
    /\ hist' = Append(hist, [op |-> "add_slice", arg |-> None, slice |-> Some(cur)])
    /\ cur' = DefaultSlice
    /\ UNCHANGED <<title, footer, dispVars, lineVars>>

AddAnnotation ==
    /\ Len(hist) < MaxCalls
    /\ \E a \in FooterArgs :
          /\ footer' = add_annotation(footer, a.msg, a.level)
          /\ hist' = Append(hist, [op |-> "add_annotation", arg |-> Some(a), slice |-> None])
    /\ UNCHANGED <<title, slices, cur, dispVars, lineVars>>

(***************************************************************************)
(* Diagnostic::display: building the Snippet handed to the engine.         *)
(***************************************************************************)
TitleAnnotation(t) ==
    IF t = None THEN None
    ELSE Some([id |-> Some("bindgen"),
               label |-> Some(t[1].msg),
               annotation_type |-> AnnotationTypeFrom(t[1].level)])

Attribution ==
    [id |-> None,
     label |-> Some(<<"This diagnostic was generated by bindgen.">>),
     annotation_type |-> "AnnotationType::Info"]

FooterAnnotations_noAttribution(f) ==
    [i \in 1..Len(f) |->
        [id |-> None,
         label |-> Some(f[i].msg),
         annotation_type |-> AnnotationTypeFrom(f[i].level)]]

FooterAnnotations(f) ==
    Append([i \in 1..Len(f) |->
               [id |-> None,
                label |-> Some(f[i].msg),
                annotation_type |-> AnnotationTypeFrom(f[i].level)]],
           Attribution)

unwrap_or_default(o) == IF o = None THEN 0 ELSE o[1]

ExtSlice_lineOne(slice) ==
    [source |-> slice.source[1],
     line_start |-> IF slice.line = None THEN 1 ELSE slice.line[1],
     origin |-> slice.filename,
     annotations |-> <<>>,
     fold |-> FALSE]

ExtSlice(slice) ==
    [source |-> slice.source[1],
     line_start |-> unwrap_or_default(slice.line),
     origin |-> slice.filename,
     annotations |-> <<>>,
     fold |-> FALSE]

RECURSIVE ExtSlices_newestFirst(_)
ExtSlices_newestFirst(ss) ==
    IF ss = <<>> THEN <<>>
    ELSE IF Head(ss).source # None
         THEN ExtSlices_newestFirst(Tail(ss)) \o <<ExtSlice(Head(ss))>>
         ELSE ExtSlices_newestFirst(Tail(ss))

RECURSIVE ExtSlices(_)
ExtSlices(ss) ==
    IF ss = <<>> THEN <<>>
    ELSE IF Head(ss).source # None
         THEN <<ExtSlice(Head(ss))>> \o ExtSlices(Tail(ss))
         ELSE ExtSlices(Tail(ss))

MakeSnippet(t, ss, f) ==
    [title |-> TitleAnnotation(t),
     footer |-> FooterAnnotations(f),
     slices |-> ExtSlices(ss),
     opt |-> [color |-> TRUE]]

(***************************************************************************)
(* The layout engine (DisplayList::from, to_string) is an external crate.  *)
(* It is abstracted as a deterministic formatter that lays out the title,  *)
(* then every slice record, then every footer annotation, one block each,  *)
(* blocks separated by a line feed.                                        *)
(***************************************************************************)
TypeLabel(at) ==
    CASE at = "AnnotationType::Error"   -> "error"
      [] at = "AnnotationType::Warning" -> "warning"
      [] at = "AnnotationType::Info"    -> "info"
      [] at = "AnnotationType::Note"    -> "note"
      [] at = "AnnotationType::Help"    -> "help"

TitleBlock(a) == <<TypeLabel(a.annotation_type), "[">> \o a.id \o <<"]", ": ">> \o a.label[1]

SliceBlock(s) ==
    (IF s.origin = None THEN <<>> ELSE <<"--> ">> \o s.origin[1] \o <<"\n">>)
    \o DecStr(s.line_start) \o <<" | ">> \o s.source

FooterBlock(a) == <<" = ", TypeLabel(a.annotation_type), ": ">> \o a.label[1]

RECURSIVE Join(_)
Join(blocks) ==
    IF blocks = <<>> THEN <<>>
    ELSE IF Len(blocks) = 1 THEN blocks[1]
    ELSE blocks[1] \o <<"\n">> \o Join(Tail(blocks))

Render(snippet) ==
    Join((IF snippet.title = None THEN <<>> ELSE <<TitleBlock(snippet.title[1])>>)
         \o [i \in 1..Len(snippet.slices) |-> SliceBlock(snippet.slices[i])]
         \o [i \in 1..Len(snippet.footer) |-> FooterBlock(snippet.footer[i])])

(***************************************************************************)
(* str::lines: split at line feeds, the last line needs no terminator, a   *)
(* carriage return right before a line feed belongs to the terminator.     *)
(***************************************************************************)
StripCr(l) ==
    IF l # <<>> /\ l[Len(l)] = "\r" THEN SubSeq(l, 1, Len(l) - 1) ELSE l

RECURSIVE LinesFrom(_, _)
LinesFrom(s, acc) ==
    IF s = <<>> THEN (IF acc = <<>> THEN <<>> ELSE <<acc>>)
    ELSE IF Head(s) = "\n" THEN <<StripCr(acc)>> \o LinesFrom(Tail(s), <<>>)
    ELSE LinesFrom(Tail(s), Append(acc, Head(s)))

Lines(s) == LinesFrom(s, <<>>)

(***************************************************************************)
(* Diagnostic::display: the thread-local flag and the two sinks.           *)
(***************************************************************************)
var_os_is_some(present) == IF present THEN "true" ELSE "false"

LazyFlag_reread(cached, present) == var_os_is_some(present)

LazyFlag(cached, present) ==
    IF cached = "uninit" THEN var_os_is_some(present) ELSE cached

ReadsAfter(cached, n) == IF cached = "uninit" THEN n + 1 ELSE n

hide_warning == "\r        \r"

PrintBuild_oneDirective(string) ==
    << <<"cargo:warning=", hide_warning>> \o string \o <<"\n">> >>

PrintBuild(string) ==
    LET lines == Lines(string)
    IN  [i \in 1..Len(lines) |->
            <<"cargo:warning=", hide_warning>> \o lines[i] \o <<"\n">>]

PrintInteractive_hidden(string) ==
    << <<hide_warning>> \o string \o <<"\n">> \o <<"\n">> >>

PrintInteractive(string) == << string \o <<"\n">> \o <<"\n">> >>

NoDisplay ==
    [thread |-> "none", mode |-> "none",
     diag |-> [title |-> None, slices |-> <<>>, footer |-> <<>>],
     snippet |-> MakeSnippet(None, <<>>, <<>>),
     stdout |-> <<>>, stderr |-> <<>>]

display(t, flag) ==
    LET snippet == MakeSnippet(title, slices, footer)
        string == Render(snippet)
    IN  [thread |-> t, mode |-> flag,
         diag |-> [title |-> title, slices |-> slices, footer |-> footer],
         snippet |-> snippet,
         stdout |-> IF flag = "true" THEN PrintBuild(string) ELSE <<>>,
         stderr |-> IF flag = "true" THEN <<>> ELSE PrintInteractive(string)]

Display(t) ==
    LET flag == LazyFlag(INVOKED_BY_BUILD_SCRIPT[t], env)
    IN  /\ INVOKED_BY_BUILD_SCRIPT' = [INVOKED_BY_BUILD_SCRIPT EXCEPT ![t] = flag]
        /\ envReads' = [envReads EXCEPT ![t] = ReadsAfter(INVOKED_BY_BUILD_SCRIPT[t], @)]
        /\ prev' = last
        /\ last' = display(t, flag)
        /\ UNCHANGED <<diagVars, cur, hist, env, lineVars>>

(* The process environment: CARGO_CFG_TARGET_ARCH may be set or removed. *)
SetVar ==
    /\ ~env
    /\ env' = TRUE
    /\ UNCHANGED <<diagVars, cur, hist, INVOKED_BY_BUILD_SCRIPT, envReads, prev, last, lineVars>>

RemoveVar ==
    /\ env
    /\ env' = FALSE
    /\ UNCHANGED <<diagVars, cur, hist, INVOKED_BY_BUILD_SCRIPT, envReads, prev, last, lineVars>>

(***************************************************************************)
(* get_line.  A file either cannot be opened or is the sequence of items   *)
(* that BufReader::lines yields: Ok(text), or Err for a line whose read    *)
(* fails (the bytes of a line that is not valid UTF-8 are consumed and the *)
(* next item is the next line).                                            *)
(***************************************************************************)
LineTexts == {"p", "q"}
OkItem(text) == [tag |-> "Ok", val |-> text]
ErrItem == [tag |-> "Err", val |-> "InvalidData"]
Items == {OkItem(x) : x \in LineTexts} \cup {ErrItem}

SeqsUpTo(S, n) == UNION {[1..k -> S] : k \in 0..n}

MissingFile == [exists |-> FALSE, items |-> <<>>]
Files == {MissingFile} \cup {[exists |-> TRUE, items |-> its] : its \in SeqsUpTo(Items, MaxLines)}
LineArgs == (0..(MaxLines + 1)) \cup {USIZE_MAX}

wrapping_sub_saturating(a, b) == IF a < b THEN 0 ELSE a - b

wrapping_sub(a, b) == (a - b + 2^USIZE_BITS) % (2^USIZE_BITS)

(* Iterator::nth: drop n items, whatever they are, and yield the next. *)
RECURSIVE nth(_, _)
nth(it, n) ==
    IF it = <<>> THEN None
    ELSE IF n = 0 THEN Some(Head(it))
    ELSE nth(Tail(it), n - 1)

Pending == [tag |-> "Pending", val |-> None]
IoErr(kind) == [tag |-> "Err", val |-> Some(kind)]
Ok(v) == [tag |-> "Ok", val |-> v]

get_line(file, line) ==
    IF ~file.exists THEN IoErr("NotFound")
    ELSE LET r == nth(file.items, wrapping_sub(line, 1))
         IN  IF r # None
             THEN (IF r[1].tag = "Ok" THEN Ok(Some(r[1].val)) ELSE IoErr(r[1].val))
             ELSE Ok(None)

GetLine ==
    /\ \E f \in Files, n \in LineArgs :
          /\ fs_file' = f
          /\ arg_line' = n
          /\ ret' = get_line(f, n)
    /\ UNCHANGED <<diagVars, cur, hist, dispVars>>

(***************************************************************************)
(* Specifications.                                                         *)
(***************************************************************************)
InitDisplayState ==
    /\ INVOKED_BY_BUILD_SCRIPT = [t \in Threads |-> "uninit"]
    /\ envReads = [t \in Threads |-> 0]
    /\ prev = NoDisplay
    /\ last = NoDisplay

InitLine ==
    /\ fs_file = MissingFile
    /\ arg_line = 0
    /\ ret = Pending

(* Builder: a default-constructed Diagnostic and Slice. *)
InitBuild ==
    /\ title = None
    /\ slices = <<>>
    /\ footer = <<>>
    /\ cur = DefaultSlice
    /\ hist = <<>>
    /\ env = FALSE
    /\ InitDisplayState
    /\ InitLine

NextBuild == WithTitle \/ AddSlice \/ AddAnnotation \/ WithSource \/ WithLocation

SpecBuild == InitBuild /\ [][NextBuild]_vars

(* Rendering: any Diagnostic the builder can produce within the bounds. *)
SliceIn ==
    {with_location(DefaultSlice, n, 2, c) : n \in Names, c \in Cols}
    \cup {with_source(DefaultSlice, src) : src \in Sources}
    \cup {with_source(with_location(DefaultSlice, n, 13, c), src) :
             n \in Names, c \in Cols, src \in Sources}

HistOf(t, ss, f) ==
    (IF t = None THEN <<>> ELSE <<[op |-> "with_title", arg |-> t, slice |-> None]>>)
    \o [i \in 1..Len(ss) |-> [op |-> "add_slice", arg |-> None, slice |-> Some(ss[i])]]
    \o [i \in 1..Len(f) |-> [op |-> "add_annotation", arg |-> Some(f[i]), slice |-> None]]

Init ==
    /\ title \in {None} \cup {with_title(None, a.msg, a.level) : a \in TitleArgs}
    /\ slices \in SeqsUpTo(SliceIn, MaxSlices)
    /\ footer \in SeqsUpTo(FooterArgs, MaxFooter)
    /\ cur = DefaultSlice
    /\ hist = HistOf(title, slices, footer)
    /\ env \in BOOLEAN
    /\ InitDisplayState
    /\ InitLine

Next == (\E t \in Threads : Display(t)) \/ SetVar \/ RemoveVar

Spec == Init /\ [][Next]_vars

(* get_line on any file and line number within the bounds. *)
NextGetLine == GetLine

SpecGetLine == InitBuild /\ [][NextGetLine]_vars

(***************************************************************************)
(* Properties.                                                             *)
(***************************************************************************)
Displayed == last.thread # "none"
DisplayedTwice == prev.thread # "none"

(* Indices of the slices that carry source text, in ascending order. *)
SrcIdx(ss) ==
    LET S == {i \in 1..Len(ss) : ss[i].source # None}
    IN  [j \in 1..Cardinality(S) |->
            CHOOSE i \in S : Cardinality({k \in S : k < i}) = j - 1]

Readable(f) == f.exists /\ \A i \in 1..Len(f.items) : f.items[i].tag = "Ok"

(* C1: on a readable file of L lines, get_line(file, n) is Ok(Some(line n))
   for 1 <= n <= L and Ok(None) for n = 0 or n > L. *)
C1_GetLineInRange ==
    (ret # Pending /\ Readable(fs_file)) =>
        LET L == Len(fs_file.items)
        IN  /\ (1 <= arg_line /\ arg_line <= L) =>
                   ret = [tag |-> "Ok", val |-> <<fs_file.items[arg_line].val>>]
            /\ (arg_line = 0 \/ arg_line > L) => ret = [tag |-> "Ok", val |-> <<>>]

C1_Witness ==
    /\ ret = [tag |-> "Ok", val |-> <<>>]
    /\ arg_line = 0
    /\ Readable(fs_file)
    /\ Len(fs_file.items) >= 2

(* C2: get_line returns Err whenever the file cannot be opened or a read
   fails on any line walked on the way to the requested line, and Ok(None)
   only for a line number out of range. *)
C2_ErrOnAnyFailure ==
    ret # Pending =>
        LET L == Len(fs_file.items)
            upto == IF arg_line = 0 \/ arg_line > L THEN L ELSE arg_line
        IN  /\ (~fs_file.exists \/ \E i \in 1..upto : fs_file.items[i].tag = "Err")
                   => ret.tag = "Err"
            /\ ret = [tag |-> "Ok", val |-> <<>>]
                   => (fs_file.exists /\ (arg_line = 0 \/ arg_line > L))

(* Record fields of every slice handed to the engine, for a given default
   starting line. *)
RecordsCarry(default) ==
    Displayed =>
        LET ss == last.diag.slices
            idx == SrcIdx(ss)
            recs == last.snippet.slices
        IN  \A j \in (DOMAIN recs) \cap (DOMAIN idx) :
               /\ recs[j].source = ss[idx[j]].source[1]
               /\ recs[j].origin = ss[idx[j]].filename
               /\ recs[j].annotations = <<>>
               /\ recs[j].fold = FALSE
               /\ recs[j].line_start =
                      IF ss[idx[j]].line = None THEN default ELSE ss[idx[j]].line[1]

(* C3 as stated: a slice record carries the source text, the origin label if
   set, no annotations, no folding, and the recorded line, or line 1 when
   with_location was never called. *)
C3_DefaultLineOne == RecordsCarry(1)

(* C3 amended: the same, with a starting line of 0 when with_location was
   never called. *)
C3_DefaultLineZero == RecordsCarry(0)

C3_Witness ==
    /\ Displayed
    /\ \E i \in 1..Len(last.diag.slices) :
          last.diag.slices[i].source # None /\ last.diag.slices[i].line = None
    /\ \E i \in 1..Len(last.diag.slices) :
          last.diag.slices[i].source # None /\ last.diag.slices[i].line # None

ReadCount == Cardinality({t \in Threads : envReads[t] >= 1})

(* C4 as stated: the environment is read at most once in the process and
   every display call uses the same mode as the first one. *)
C4_OncePerProcess ==
    /\ \A t \in Threads : envReads[t] <= 1
    /\ ReadCount <= 1
    /\ DisplayedTwice => prev.mode = last.mode

(* C4 amended: the mode is decided once per thread.  A thread reads the
   environment at most once, its flag never changes once set, and every
   display call on the thread uses the thread's flag. *)
C4_OncePerThread ==
    [][/\ \A t \in Threads :
             /\ envReads'[t] <= 1
             /\ INVOKED_BY_BUILD_SCRIPT[t] # "uninit"
                    => INVOKED_BY_BUILD_SCRIPT'[t] = INVOKED_BY_BUILD_SCRIPT[t]
       /\ last'.thread # "none" => last'.mode = INVOKED_BY_BUILD_SCRIPT'[last'.thread]
       /\ prev'.thread # "none" => prev'.mode = INVOKED_BY_BUILD_SCRIPT'[prev'.thread]]_vars

C4_Witness ==
    /\ DisplayedTwice
    /\ prev.thread = last.thread
    /\ last.mode = "true"
    /\ ~env

NewlineCount(s) == Cardinality({i \in 1..Len(s) : s[i] = "\n"})

(* C5: in build-script mode display prints one cargo:warning directive per
   line of the rendered string, in order, each the marker, the hide prefix
   and that line; nothing goes to the error stream. *)
C5_BuildScriptOutput ==
    (Displayed /\ last.mode = "true") =>
        LET string == Render(last.snippet)
            ls == Lines(string)
        IN  /\ Len(last.stdout) = Len(ls)
            /\ Len(last.stdout) = NewlineCount(string) + 1
            /\ \A i \in 1..Len(ls) :
                  /\ last.stdout[i] = <<"cargo:warning=", "\r        \r">> \o ls[i] \o <<"\n">>
                  /\ NewlineCount(ls[i]) = 0
            /\ last.stderr = <<>>

C5_Witness ==
    /\ Displayed
    /\ last.mode = "true"
    /\ Len(last.stdout) >= 4

(* C6: in interactive mode display makes one write to the error stream, the
   rendered string followed by a blank line, without marker or hide prefix,
   and prints nothing to standard output. *)
C6_InteractiveOutput ==
    (Displayed /\ last.mode = "false") =>
        LET string == Render(last.snippet)
        IN  /\ last.stdout = <<>>
            /\ Len(last.stderr) = 1
            /\ last.stderr[1] = string \o <<"\n", "\n">>
            /\ \A i \in 1..Len(last.stderr[1]) :
                  last.stderr[1][i] \notin {"cargo:warning=", "\r        \r"}

C6_Witness ==
    /\ Displayed
    /\ last.mode = "false"
    /\ last.diag.title # None
    /\ Len(last.stderr) = 1

(* C7: the slice records are the slices with source text, all of them, in
   insertion order; a slice without source text contributes no record. *)
C7_SlicesFiltered ==
    Displayed =>
        LET ss == last.diag.slices
            idx == SrcIdx(ss)
            recs == last.snippet.slices
        IN  /\ Len(recs) = Cardinality({i \in 1..Len(ss) : ss[i].source # None})
            /\ [j \in 1..Len(recs) |-> <<recs[j].source, recs[j].origin>>]
                   = [j \in 1..Len(idx) |-> <<ss[idx[j]].source[1], ss[idx[j]].filename>>]
            /\ \A i \in 1..Len(ss) :
                  (/\ ss[i].source = None
                   /\ \A k \in 1..Len(ss) : ss[k].source # None => ss[k].filename # ss[i].filename)
                  => \A j \in 1..Len(recs) : recs[j].origin # ss[i].filename

C7_Witness ==
    /\ Displayed
    /\ Len(last.diag.slices) = 3
    /\ last.diag.slices[2].source = None
    /\ last.diag.slices[2].filename # None
    /\ Len(last.snippet.slices) = 2
    /\ last.snippet.slices[1].origin # last.snippet.slices[2].origin

LevelKind ==
    [l \in Level |->
        CASE l = "Error" -> "AnnotationType::Error"
          [] l = "Warn"  -> "AnnotationType::Warning"
          [] l = "Info"  -> "AnnotationType::Info"
          [] l = "Note"  -> "AnnotationType::Note"
          [] l = "Help"  -> "AnnotationType::Help"]

(* C8: the footer handed to the engine is the caller's footer in order
   followed by the one Info attribution entry, which is never stored in the
   Diagnostic's own footer. *)
C8_AttributionLast ==
    Displayed =>
        LET f == last.diag.footer
            out == last.snippet.footer
        IN  /\ Len(out) = Len(f) + 1
            /\ out[Len(out)] =
                  [id |-> <<>>,
                   label |-> << <<"This diagnostic was generated by bindgen.">> >>,
                   annotation_type |-> "AnnotationType::Info"]
            /\ \A i \in 1..Len(f) :
                  /\ out[i].id = <<>>
                  /\ out[i].label = <<f[i].msg>>
                  /\ out[i].annotation_type = LevelKind[f[i].level]
            /\ footer = f

C8_Witness ==
    /\ Displayed
    /\ title = None /\ slices = <<>> /\ footer = <<>>
    /\ Len(last.snippet.footer) = 1

(* The Diagnostic fields that a call history must produce. *)
IsOp(h, name) == {i \in 1..Len(h) : h[i].op = name}

OpIdx(h, name) ==
    [j \in 1..Cardinality(IsOp(h, name)) |->
        CHOOSE i \in IsOp(h, name) : Cardinality({k \in IsOp(h, name) : k < i}) = j - 1]

(* C9: the title is that of the latest with_title call (absent if none), the
   slices are the add_slice arguments in call order and the footer the
   add_annotation arguments in call order. *)
C9_BuilderFields ==
    LET ti == OpIdx(hist, "with_title")
        si == OpIdx(hist, "add_slice")
        fi == OpIdx(hist, "add_annotation")
    IN  /\ title = IF Len(ti) = 0 THEN <<>> ELSE hist[ti[Len(ti)]].arg
        /\ slices = [j \in 1..Len(si) |-> hist[si[j]].slice[1]]
        /\ footer = [j \in 1..Len(fi) |-> hist[fi[j]].arg[1]]

C9_Witness ==
    /\ Len(hist) = 4
    /\ hist[1].op = "with_title" /\ hist[2].op = "add_slice"
    /\ hist[3].op = "add_annotation" /\ hist[4].op = "with_title"
    /\ hist[1].arg # hist[4].arg
    /\ title = hist[4].arg

(* C10 as stated: display leaves the Diagnostic unchanged and two renderings
   of the same Diagnostic in the process write the same output to the same
   sink. *)
C10_RepeatableInProcess ==
    /\ Displayed => last.diag = [title |-> title, slices |-> slices, footer |-> footer]
    /\ (DisplayedTwice /\ prev.diag = last.diag)
           => (prev.stdout = last.stdout /\ prev.stderr = last.stderr)

(* C10 amended: display leaves the Diagnostic unchanged and two renderings
   of the same Diagnostic on the same thread write the same output to the
   same sink. *)
C10_RepeatableOnThread ==
    /\ Displayed => last.diag = [title |-> title, slices |-> slices, footer |-> footer]
    /\ (DisplayedTwice /\ prev.diag = last.diag /\ prev.thread = last.thread)
           => (prev.stdout = last.stdout /\ prev.stderr = last.stderr)

C10_Witness ==
    /\ DisplayedTwice
    /\ prev.thread = last.thread
    /\ prev.diag = last.diag
    /\ Len(last.diag.slices) >= 1
    /\ prev.stdout = last.stdout
    /\ last.stdout # <<>>

====
